---- MODULE Spec2Model ----
(***************************************************************************)
(* MyPhotoApp: the scan orchestrator (core/core_scanner.py), its worker   *)
(* thread and cancellation flag (ui/ui_main_window.py), the SQLite sink   *)
(* (analytics/analytics_writer.py) and the analytics passes               *)
(* (analytics/analytics_insights.py, analytics/analytics_queries.py).     *)
(*                                                                         *)
(* Spec       the scanner worker, the thread pool and the store: scans of *)
(*            up to MaxFiles files, a few decoder outcomes per file       *)
(* SpecFair   the same machine with the worker thread and the pool        *)
(*            scheduled fairly and every sub-task returning               *)
(* SpecRecord the same machine scanning one file under every decoder      *)
(*            outcome                                                      *)
(* SpecStore  insert_entry applied to a sequence of entries                *)
(* SpecImage  extract_image_metadata applied to every decoder outcome      *)
(* SpecClassify  _classify_image_error_message applied to every message   *)
(* SpecVideo     extract_video_metadata applied to every probe outcome    *)
(* SpecFrame     the two video extractors of a video file and its record  *)
(* SpecInsights  one call of an analytics function on a table             *)
(***************************************************************************)
EXTENDS Integers, Sequences, FiniteSets, TLC

\* ------------------------------------------------------------------------
\* Bounds
\* ------------------------------------------------------------------------
MaxFiles == 2
MaxScans == 2
\* the longest decoder message, in words
MaxWords == 4
\* the most streams ffprobe reports for one file
MaxStreams == 2
\* the most rows of a table an analytics pass reads
MaxRows == 3
\* the length of a perceptual hash, in hexadecimal digits
HashLen == 3

\* ------------------------------------------------------------------------
\* Values
\* ------------------------------------------------------------------------
\* Python's None for the fields that hold a value or nothing.
NULL == "null"
\* A message is a sequence of words; no message (None) is the empty sequence.
NoError == <<>>

\* max(2, os.cpu_count() // 2) on a host of up to five logical cores.
MAX_WORKERS == 2

\* ------------------------------------------------------------------------
\* Image error classification
\* ------------------------------------------------------------------------
Lower(w) ==
    CASE w = "Truncated" -> "truncated"
      [] w = "TRUNCATED" -> "truncated"
      [] w = "Invalid" -> "invalid"
      [] OTHER -> w

LowerMsg(msg) == [i \in 1..Len(msg) |-> Lower(msg[i])]

\* s in msg, at the granularity of words
Contains(msg, s) ==
    \E i \in 0..(Len(msg) - Len(s)) : \A j \in 1..Len(s) : msg[i + j] = s[j]

soft_patterns ==
    { <<"image", "file", "is", "truncated">>,
      <<"truncated">>,
      <<"broken", "data", "stream">>,
      <<"wrong", "number", "of", "bytes">>,
      <<"incomplete", "jpeg">>,
      <<"premature", "end", "of", "file">>,
      <<"unexpected", "end", "of", "data">> }

hard_patterns ==
    { <<"cannot", "identify", "image", "file">>,
      <<"zlib.error">>,
      <<"decoder", "error">>,
      <<"invalid">>,
      <<"missing", "soi">>,
      <<"missing", "eoi">> }

classify_unmatched == [is_corrupted |-> TRUE, is_usable |-> FALSE]

\* the same patterns, the HARD list consulted first
classify_hard_first(m) ==
    LET msg == LowerMsg(m) IN
    IF \E h \in hard_patterns : Contains(msg, h)
    THEN [is_corrupted |-> TRUE, is_usable |-> FALSE]
    ELSE IF \E s \in soft_patterns : Contains(msg, s)
    THEN [is_corrupted |-> TRUE, is_usable |-> TRUE]
    ELSE classify_unmatched

classify_image_error_message(m) ==
    LET msg == LowerMsg(m) IN
    IF \E s \in soft_patterns : Contains(msg, s)
    THEN [is_corrupted |-> TRUE, is_usable |-> TRUE]
    ELSE IF \E h \in hard_patterns : Contains(msg, h)
    THEN [is_corrupted |-> TRUE, is_usable |-> FALSE]
    ELSE classify_unmatched

\* Messages a decoder raises
MsgTruncated == <<"image", "file", "is", "truncated">>
MsgIdentify == <<"cannot", "identify", "image", "file">>
MsgBoth == <<"decoder", "error", "Truncated", "stream">>
MsgOther == <<"unsupported", "operation">>
Messages == {MsgTruncated, MsgIdentify, MsgBoth, MsgOther}

\* ------------------------------------------------------------------------
\* extract_image_metadata
\* ------------------------------------------------------------------------
ImgDefault ==
    [ width |-> NULL, height |-> NULL,
      exif_datetime_original |-> NULL, exif_camera_model |-> NULL,
      gps_lat |-> NULL, gps_lon |-> NULL,
      phash |-> NULL, whash |-> NULL,
      brightness_mean |-> NULL, hist_16bins |-> NULL,
      is_corrupted |-> FALSE, is_usable |-> TRUE, read_error |-> NoError ]

expected_format(ext) ==
    CASE ext = ".png" -> "PNG"
      [] ext = ".jpg" -> "JPEG"
      [] ext = ".jpeg" -> "JPEG"
      [] ext = ".gif" -> "GIF"
      [] OTHER -> NULL

\* What the decoders do for one file: the inputs of extract_image_metadata.
\*   libs        Pillow and imagehash are importable
\*   ext         the extension of the path
\*   real_format img_verify.format (NULL when Image.open itself raised)
\*   verify      the message Image.open / verify() raises, or NoError
\*   open2       the message the second Image.open raises, or NoError
\*   load        the message img.load() raises, or NoError
\*   hash        "ok", or the hash computation at which imagehash raises
\*   bright      the brightness computed ("zero", "pos"), or "fail"
\*   exif        "none" (no EXIF block), "ok", "raises" (_getexif raises)
\*   dt          DateTimeOriginal: "absent", "valid", "malformed"
\*   gps         GPSInfo: "absent", "valid", "unconvertible" (a coordinate
\*               that _convert_to_degrees cannot convert), "badref" (a
\*               reference that is no string)
\* lines 261-279: [d, soft, ret]
ImgVerify(inp, data) ==
    IF inp.verify = NoError
    THEN [d |-> data, soft |-> FALSE, ret |-> FALSE]
    ELSE LET clas == classify_image_error_message(inp.verify)
             d1 == [data EXCEPT !.is_corrupted = clas.is_corrupted,
                                !.is_usable = clas.is_usable,
                                !.read_error = inp.verify]
         IN  IF d1.is_usable
             THEN [d |-> d1, soft |-> TRUE, ret |-> FALSE]
             ELSE [d |-> d1, soft |-> FALSE, ret |-> TRUE]

MsgMismatch == <<"Extension/format", "mismatch">>

\* lines 284-294: [d, soft]
ImgMismatch(inp, data, soft) ==
    IF /\ expected_format(inp.ext) # NULL
       /\ inp.real_format # NULL
       /\ expected_format(inp.ext) # inp.real_format
    THEN [d |-> [data EXCEPT !.is_corrupted = TRUE,
                             !.is_usable = TRUE,
                             !.read_error = MsgMismatch],
          soft |-> TRUE]
    ELSE [d |-> data, soft |-> soft]

\* lines 301-315: [d, soft, ret]
ImgLoad(inp, data, soft) ==
    IF inp.load = NoError
    THEN [d |-> data, soft |-> soft, ret |-> FALSE]
    ELSE LET clas == classify_image_error_message(inp.load)
             d1 == [data EXCEPT !.is_corrupted = clas.is_corrupted,
                                !.is_usable = clas.is_usable,
                                !.read_error =
                                    IF data.read_error = NoError
                                    THEN inp.load ELSE data.read_error]
         IN  IF ~d1.is_usable
             THEN [d |-> d1, soft |-> soft, ret |-> TRUE]
             ELSE [d |-> d1, soft |-> TRUE, ret |-> FALSE]

MsgHash == <<"hash", "failed">>

\* lines 319-328: [d, soft]
ImgHashes(inp, data, soft) ==
    IF inp.hash = "ok"
    THEN [d |-> [data EXCEPT !.phash = "ph", !.whash = "wh"], soft |-> soft]
    ELSE LET d1 == IF inp.hash = "fail_whash"
                   THEN [data EXCEPT !.phash = "ph"] ELSE data
         IN  [d |-> [d1 EXCEPT !.read_error =
                                   IF d1.read_error = NoError
                                   THEN MsgHash ELSE d1.read_error],
              soft |-> TRUE]

\* the brightness failure that is swallowed without a trace
ImgBrightnessSilent(inp, data, soft) ==
    IF inp.bright = "fail"
    THEN [d |-> data, soft |-> soft]
    ELSE [d |-> [data EXCEPT !.brightness_mean = inp.bright,
                             !.hist_16bins = "hist"],
          soft |-> soft]

\* lines 330-342: [d, soft]
ImgBrightness(inp, data, soft) ==
    IF inp.bright = "fail"
    THEN [d |-> data, soft |-> TRUE]
    ELSE [d |-> [data EXCEPT !.brightness_mean = inp.bright,
                             !.hist_16bins = "hist"],
          soft |-> soft]

MsgExif == <<"exif", "unreadable">>
MsgGpsRef == <<"has", "no", "attribute", "upper">>

\* _convert_to_degrees / _parse_gps_info: the pair (la, lo)
parse_gps_info(gps) ==
    IF gps = "valid" THEN <<"lat", "lon">> ELSE <<NULL, NULL>>

\* lines 345-370: [d, soft, exc]; exc is the message of an exception that
\* leaves the block
ImgExif(inp, data, soft) ==
    IF inp.exif = "raises"
    THEN [d |-> data, soft |-> soft, exc |-> MsgExif]
    ELSE IF inp.exif = "none"
    THEN [d |-> data, soft |-> soft, exc |-> NoError]
    ELSE LET d1 == IF inp.dt = "valid"
                   THEN [data EXCEPT !.exif_datetime_original = "exif_dt"]
                   ELSE data
             s1 == soft \/ inp.dt = "malformed"
             d2 == [d1 EXCEPT !.exif_camera_model = "model"]
         IN  IF inp.gps = "absent"
             THEN [d |-> d2, soft |-> s1, exc |-> NoError]
             ELSE IF inp.gps = "badref"
             THEN [d |-> d2, soft |-> s1, exc |-> MsgGpsRef]
             ELSE [d |-> [d2 EXCEPT !.gps_lat = parse_gps_info(inp.gps)[1],
                                    !.gps_lon = parse_gps_info(inp.gps)[2]],
                   soft |-> s1, exc |-> NoError]

\* lines 372-376
ImgOuterExcept(data, msg) ==
    [data EXCEPT !.is_corrupted = TRUE, !.is_usable = FALSE, !.read_error = msg]

\* lines 378-381
ImgFinish(data, soft) ==
    IF soft THEN [data EXCEPT !.is_corrupted = TRUE] ELSE data

\* lines 299-376
ImgBody(inp, data, soft) ==
    IF inp.open2 # NoError THEN ImgOuterExcept(data, inp.open2)
    ELSE LET l == ImgLoad(inp, data, soft) IN
         IF l.ret THEN l.d
         ELSE LET d1 == [l.d EXCEPT !.width = "w", !.height = "h"]
                  h == ImgHashes(inp, d1, l.soft)
                  b == ImgBrightness(inp, h.d, h.soft)
                  x == ImgExif(inp, b.d, b.soft)
              IN  IF x.exc # NoError THEN ImgOuterExcept(x.d, x.exc)
                  ELSE ImgFinish(x.d, x.soft)

extract_image_metadata(inp) ==
    IF ~inp.libs THEN ImgDefault
    ELSE LET v == ImgVerify(inp, ImgDefault) IN
         IF v.ret THEN v.d
         ELSE LET m == ImgMismatch(inp, v.d, v.soft) IN
              ImgBody(inp, m.d, m.soft)

\* ------------------------------------------------------------------------
\* extract_video_metadata
\* ------------------------------------------------------------------------
VidDefault ==
    [ duration |-> NULL, fps |-> NULL, bitrate |-> NULL, nb_frames |-> NULL,
      rotation |-> NULL, video_codec |-> NULL, audio_codec |-> NULL,
      width |-> NULL, height |-> NULL,
      is_corrupted |-> FALSE, is_usable |-> TRUE, read_error |-> NoError ]

\* shutil.which(name), then the bundled bin directory
find_ffprobe(inp) == inp.on_path \/ inp.in_bin

\* "num/den" -> num / den, None when den is zero
parse_rate(fr) ==
    CASE fr = "30/1" -> "30"
      [] fr = "25/1" -> "25"
      [] OTHER -> NULL

\* one iteration of the loop over info["streams"], lines 435-453
VidStream(data, stream) ==
    LET d1 == IF stream.codec_type = "video"
              THEN [data EXCEPT !.video_codec = stream.codec_name,
                                !.width = stream.width,
                                !.height = stream.height,
                                !.fps = IF stream.r_frame_rate # NULL
                                        THEN parse_rate(stream.r_frame_rate)
                                        ELSE data.fps,
                                !.nb_frames = stream.nb_frames,
                                !.rotation = stream.rotate]
              ELSE data
    IN  IF stream.codec_type = "audio"
        THEN [d1 EXCEPT !.audio_codec = stream.codec_name]
        ELSE d1

RECURSIVE VidStreams(_, _)
VidStreams(data, streams) ==
    IF streams = <<>> THEN data
    ELSE VidStreams(VidStream(data, Head(streams)), Tail(streams))

MsgNoProbe == <<"ffprobe", "not", "found">>
MsgNoVideo == <<"No", "video", "stream">>
MsgIncomplete == <<"Incomplete", "video", "stream">>
MsgProbe == <<"ffprobe", "error">>

\* What the probe does for one file: the inputs of extract_video_metadata.
\*   lib      the ffmpeg module is importable
\*   on_path, in_bin   where an ffprobe executable is
\*   probe    "ok", or "raises" when ffmpeg.probe raises
\*   streams  the streams ffprobe reports
extract_video_metadata(inp) ==
    IF ~inp.lib THEN VidDefault
    ELSE IF ~find_ffprobe(inp)
    THEN [VidDefault EXCEPT !.is_corrupted = TRUE, !.is_usable = FALSE,
                            !.read_error = MsgNoProbe]
    ELSE IF inp.probe = "raises"
    THEN [VidDefault EXCEPT !.is_corrupted = TRUE, !.is_usable = FALSE,
                            !.read_error = MsgProbe]
    ELSE LET d0 == [VidDefault EXCEPT !.duration = "dur", !.bitrate = "rate"]
             d1 == VidStreams(d0, inp.streams)
             usable_video_stream ==
                 \E i \in 1..Len(inp.streams) : inp.streams[i].codec_type = "video"
         IN  IF ~usable_video_stream
             THEN [d1 EXCEPT !.is_corrupted = TRUE, !.is_usable = FALSE,
                             !.read_error = MsgNoVideo]
             ELSE IF d1.nb_frames = NULL \/ d1.nb_frames = "0"
             THEN [d1 EXCEPT !.is_corrupted = TRUE, !.is_usable = TRUE,
                             !.read_error = MsgIncomplete]
             ELSE d1

\* ------------------------------------------------------------------------
\* extract_video_frame_hashes
\* ------------------------------------------------------------------------
FrameDefault ==
    [ phash |-> NULL, whash |-> NULL,
      brightness_mean |-> NULL, hist_16bins |-> NULL,
      is_corrupted |-> FALSE, is_usable |-> TRUE, read_error |-> NoError ]

find_ffmpeg(inp) == inp.on_path \/ inp.in_bin

MsgNoFfmpeg == <<"ffmpeg", "not", "found">>
MsgNoFrame == <<"Could", "not", "extract", "frame">>
MsgDecode == <<"ffmpeg", "error">>

\* lines 529-547
FrameHashes(inp, data) ==
    LET d1 == IF inp.hash = "ok"
              THEN [data EXCEPT !.phash = "ph", !.whash = "wh"]
              ELSE [data EXCEPT !.is_corrupted = TRUE, !.is_usable = TRUE,
                                !.read_error = MsgHash]
    IN  IF inp.bright = "fail"
        THEN [d1 EXCEPT !.is_corrupted = TRUE, !.is_usable = TRUE]
        ELSE [d1 EXCEPT !.brightness_mean = inp.bright, !.hist_16bins = "hist"]

\* What the decode does for one file: the inputs of extract_video_frame_hashes.
\*   libs     ffmpeg, Pillow and imagehash are importable
\*   on_path, in_bin   where an ffmpeg executable is
\*   run      "ok", "empty" (no output), "raises" (ffmpeg or the frame's
\*            decode raises)
\*   hash, bright   as for extract_image_metadata
extract_video_frame_hashes(inp) ==
    IF ~inp.libs THEN FrameDefault
    ELSE IF ~find_ffmpeg(inp)
    THEN [FrameDefault EXCEPT !.is_corrupted = TRUE, !.is_usable = FALSE,
                              !.read_error = MsgNoFfmpeg]
    ELSE IF inp.run = "raises"
    THEN [FrameDefault EXCEPT !.is_corrupted = TRUE, !.is_usable = FALSE,
                              !.read_error = MsgDecode]
    ELSE IF inp.run = "empty"
    THEN [FrameDefault EXCEPT !.is_corrupted = TRUE, !.is_usable = FALSE,
                              !.read_error = MsgNoFrame]
    ELSE FrameHashes(inp, FrameDefault)

\* ------------------------------------------------------------------------
\* compute_sha256, detect_mime_type, classify_mime, get_fs_metadata
\* ------------------------------------------------------------------------
\* inp.readable: the bytes can be read; inp.content: what they are
compute_sha256(inp) ==
    IF inp.readable THEN <<"sha256", inp.content>> ELSE <<"ERROR">>

\* A MIME type is the pair <<type, subtype>>.
OctetStream == <<"application", "octet-stream">>

\* mimetypes.guess_type(path)[0], None for an extension it does not know
guess_type(ext) ==
    CASE ext = ".jpg" -> <<"image", "jpeg">>
      [] ext = ".png" -> <<"image", "png">>
      [] ext = ".mp4" -> <<"video", "mp4">>
      [] ext = ".mov" -> <<"video", "quicktime">>
      [] ext = ".mp3" -> <<"audio", "mpeg">>
      [] ext = ".txt" -> <<"text", "plain">>
      [] OTHER -> <<>>

\* inp.magic: "absent" (python-magic is not installed), "raises", "empty"
\* (from_file returns nothing), or the MIME type libmagic detects
detect_mime_type(inp, ext) ==
    IF inp.magic = "absent" \/ inp.magic = "raises"
    THEN IF guess_type(ext) # <<>> THEN guess_type(ext) ELSE OctetStream
    ELSE IF inp.magic = "empty" THEN OctetStream
    ELSE inp.sniffed

classify_mime(mime_type) ==
    [ is_image |-> mime_type[1] = "image",
      is_video |-> mime_type[1] = "video",
      is_audio |-> mime_type[1] = "audio" ]

\* st.has_birthtime: os.stat exposes a (non-zero) st_birthtime
get_fs_metadata(st) ==
    [ modified_date |-> "mtime",
      fs_created_date |-> "ctime",
      birth_date |-> IF st.has_birthtime THEN "btime" ELSE "ctime",
      inode |-> "ino" ]

image_exts ==
    {".png", ".jpg", ".jpeg", ".mpo", ".bmp", ".gif", ".tiff", ".tif",
     ".webp", ".heic", ".heif"}

\* ------------------------------------------------------------------------
\* The record scan_directory assembles (lines 597-675)
\* ------------------------------------------------------------------------
\* The paths of the directory tree; a path's extension is part of the path.
Paths == 1..MaxFiles

ExtOf(path) ==
    CASE path % 3 = 1 -> ".jpg"
      [] path % 3 = 2 -> ".mp4"
      [] OTHER -> ".txt"

\* Python's truth value of a field: None, 0 and 0.0 are false
Truthy(x) == x # NULL /\ x # "zero" /\ x # "0"

\* b or a: the later operand wins
OrLast(a, b) == IF Truthy(b) THEN b ELSE a

\* a or b
Or(a, b) == IF Truthy(a) THEN a ELSE b

\* a or b, for messages
OrMsg(a, b) == IF a # NoError THEN a ELSE b

\* bool(img.get("is_corrupted") or vid.get("is_corrupted")), line 669
entry_is_corrupted(im, vi, fr) == im.is_corrupted \/ vi.is_corrupted

\* fut_img, fut_vid and fut_vid_frame that were not submitted give {} and
\* every .get on it None: ImgDefault, VidDefault and FrameDefault behave
\* as {} does in every expression below.
assemble(path, size, fsm, mime_type, has_img, sha, im, vi, fr) ==
    LET kind == classify_mime(mime_type)
        created == Or(im.exif_datetime_original,
                      Or(fsm.birth_date, fsm.fs_created_date))
    IN  [ full_path |-> path,
          extension |-> ExtOf(path),
          size |-> size,
          mime_type |-> mime_type,
          is_image |-> has_img,
          is_video |-> kind.is_video,
          is_audio |-> kind.is_audio,
          sha256 |-> sha,
          phash |-> Or(im.phash, fr.phash),
          whash |-> Or(im.whash, fr.whash),
          width |-> Or(im.width, vi.width),
          height |-> Or(im.height, vi.height),
          brightness_mean |-> Or(im.brightness_mean, fr.brightness_mean),
          hist_16bins |-> Or(im.hist_16bins, fr.hist_16bins),
          duration |-> vi.duration,
          video_codec |-> vi.video_codec,
          audio_codec |-> vi.audio_codec,
          fps |-> vi.fps,
          bitrate |-> vi.bitrate,
          nb_frames |-> vi.nb_frames,
          rotation |-> vi.rotation,
          exif_datetime_original |-> im.exif_datetime_original,
          exif_camera_model |-> im.exif_camera_model,
          gps_lat |-> im.gps_lat,
          gps_lon |-> im.gps_lon,
          created_date |-> created,
          modified_date |-> fsm.modified_date,
          year |-> IF Truthy(created) THEN "year" ELSE NULL,
          fs_created_date |-> fsm.fs_created_date,
          birth_date |-> fsm.birth_date,
          inode |-> fsm.inode,
          is_corrupted |-> entry_is_corrupted(im, vi, fr),
          is_usable |-> IF has_img THEN im.is_usable ELSE vi.is_usable,
          read_error |-> OrMsg(im.read_error, vi.read_error) ]

\* ------------------------------------------------------------------------
\* The store: the four tables insert_entry writes
\* ------------------------------------------------------------------------
EmptyDb == [files |-> {}, image_meta |-> {}, video_meta |-> {}, hash_meta |-> {}]

IntBool(b) == IF b THEN 1 ELSE 0

FilesCols(e) ==
    [ extension |-> e.extension, mime_type |-> e.mime_type, size |-> e.size,
      created_date |-> e.created_date, modified_date |-> e.modified_date,
      birth_date |-> e.birth_date, year |-> e.year, inode |-> e.inode,
      is_image |-> IntBool(e.is_image), is_video |-> IntBool(e.is_video),
      is_audio |-> IntBool(e.is_audio),
      is_corrupted |-> IntBool(e.is_corrupted),
      read_error |-> e.read_error, is_usable |-> IntBool(e.is_usable) ]

ImageCols(e) ==
    [ width |-> e.width, height |-> e.height,
      brightness_mean |-> e.brightness_mean,
      hist_16bins |-> <<"json", e.hist_16bins>>,
      exif_datetime_original |-> e.exif_datetime_original,
      exif_camera_model |-> e.exif_camera_model,
      gps_lat |-> e.gps_lat, gps_lon |-> e.gps_lon ]

VideoCols(e) ==
    [ width |-> e.width, height |-> e.height, duration |-> e.duration,
      fps |-> e.fps, bitrate |-> e.bitrate, nb_frames |-> e.nb_frames,
      rotation |-> e.rotation, video_codec |-> e.video_codec,
      audio_codec |-> e.audio_codec ]

HashCols(e) == [sha256 |-> e.sha256, phash |-> e.phash, whash |-> e.whash]

\* cur.lastrowid of a row added to files: one more than the largest id
NextId(d) ==
    IF d.files = {} THEN 1
    ELSE 1 + (CHOOSE n \in {r.id : r \in d.files} :
                 \A r \in d.files : r.id <= n)

\* The id of the files row of a path (SELECT id FROM files WHERE full_path = ?)
IdOf(d, path) == (CHOOSE r \in d.files : r.full_path = path).id

HasPath(d, path) == \E r \in d.files : r.full_path = path

\* lines 16-55: the INSERT into files raises IntegrityError for a full_path
\* that is already there, and the row that is there is kept as it is
insert_files(d, e) ==
    IF HasPath(d, e.full_path) THEN d.files
    ELSE d.files \cup {[id |-> NextId(d), full_path |-> e.full_path,
                        cols |-> FilesCols(e)]}

\* DELETE FROM t WHERE file_id = ?, then INSERT INTO t
replace_meta(table, file_id, cols) ==
    {r \in table : r.file_id # file_id} \cup {[file_id |-> file_id, cols |-> cols]}

insert_entry(d, e) ==
    LET files1 == insert_files(d, e)
        file_id == IF HasPath(d, e.full_path) THEN IdOf(d, e.full_path)
                   ELSE NextId(d)
    IN  [ files |-> files1,
          image_meta |-> IF e.is_image
                         THEN replace_meta(d.image_meta, file_id, ImageCols(e))
                         ELSE d.image_meta,
          video_meta |-> IF e.is_video
                         THEN replace_meta(d.video_meta, file_id, VideoCols(e))
                         ELSE d.video_meta,
          hash_meta |-> replace_meta(d.hash_meta, file_id, HashCols(e)) ]

\* insert_entry when a statement raises sqlite3.Error: at the first
\* statement (stage 0), or after the files row was written (stage 1)
insert_entry_failing(d, e, stage) ==
    IF stage = 0 THEN d ELSE [d EXCEPT !.files = insert_files(d, e)]

\* the reset that leaves the files table as it is
clear_tables_keep_files(d) == [EmptyDb EXCEPT !.files = d.files]

\* ScannerWorker.run, lines 45-49: the four DELETEs
clear_tables(d) == EmptyDb

\* the connection closed without a commit
commit_lost(view, committed) == committed

\* conn.commit(): what is committed afterwards, given the connection's view
\* and what was committed before
commit(view, committed) == view

\* ------------------------------------------------------------------------
\* State
\* ------------------------------------------------------------------------
VARIABLES
    profile,    \* which inputs are explored: "scan", "record" or "fair"
    pc,         \* where the worker thread is in ScannerWorker.run
    scans,      \* the scans started so far
    walk,       \* the files os.walk yields in this scan, in order
    idx,        \* the position of the loop in walk (0 before the first file)
    abort,      \* ScannerWorker._abort
    queue,      \* the pool's work queue
    running,    \* the sub-tasks the pool's workers are running
    fut,        \* fut_sha, fut_mime, fut_img, fut_vid, fut_vid_frame
    fs_meta, sha256, mime, img, vid, vid_frame,   \* the loop's locals
    entry,      \* the record of the current file
    results,    \* scan_directory's results list
    db,         \* the tables as the connection sees them
    disk,       \* the tables as committed
    outcome,    \* how the last run of the worker ended
    handed,     \* history: the paths the callback was called with
    late,       \* history: files whose processing began with _abort set
    emitted,    \* history: the signals the worker of this run emitted
    iin, iout,  \* SpecImage: the input and the result of one extraction
    qin, qout   \* the input and the result of one call of a pure function

vars ==
    << profile, pc, scans, walk, idx, abort, queue, running, fut,
       fs_meta, sha256, mime, img, vid, vid_frame, entry, results,
       db, disk, outcome, handed, late, emitted, iin, iout, qin, qout >>

Kinds == {"sha", "mime", "img", "vid", "frame"}

NoFutures == [k \in Kinds |-> "none"]

\* ------------------------------------------------------------------------
\* The inputs explored
\* ------------------------------------------------------------------------
ImgClean ==
    [ libs |-> TRUE, ext |-> ".jpg", real_format |-> "JPEG",
      verify |-> NoError, open2 |-> NoError, load |-> NoError,
      hash |-> "ok", bright |-> "pos", exif |-> "none",
      dt |-> "absent", gps |-> "absent" ]

VidClean ==
    [ lib |-> TRUE, on_path |-> TRUE, in_bin |-> FALSE, probe |-> "ok",
      streams |-> << [ codec_type |-> "video", codec_name |-> "h264",
                       width |-> "vw", height |-> "vh",
                       r_frame_rate |-> "30/1", nb_frames |-> "120",
                       rotate |-> NULL ] >> ]

FrameClean ==
    [ libs |-> TRUE, on_path |-> TRUE, in_bin |-> FALSE, run |-> "ok",
      hash |-> "ok", bright |-> "pos" ]

ShaInputs == {[readable |-> r, content |-> 1] : r \in BOOLEAN}

StatInputs == {[ok |-> TRUE, has_birthtime |-> TRUE], [ok |-> FALSE, has_birthtime |-> TRUE]}
    \cup IF profile = "record" THEN {[ok |-> TRUE, has_birthtime |-> FALSE]} ELSE {}

MimeInputs ==
    {[magic |-> "absent", sniffed |-> OctetStream]}
    \cup IF profile = "record"
         THEN {[magic |-> "raises", sniffed |-> OctetStream],
               [magic |-> "empty", sniffed |-> OctetStream]}
              \cup {[magic |-> "found", sniffed |-> m] :
                      m \in {<<"image", "jpeg">>, <<"video", "mp4">>,
                             <<"audio", "mpeg">>, OctetStream}}
         ELSE {}

ImgInputs(ext) ==
    {[ImgClean EXCEPT !.ext = ext], [ImgClean EXCEPT !.ext = ext, !.verify = MsgIdentify]}
    \cup IF profile = "record"
         THEN {[ImgClean EXCEPT !.ext = ext, !.libs = FALSE],
               [ImgClean EXCEPT !.ext = ext, !.verify = MsgTruncated],
               [ImgClean EXCEPT !.ext = ext, !.real_format = "PNG"],
               [ImgClean EXCEPT !.ext = ext, !.load = MsgOther],
               [ImgClean EXCEPT !.ext = ext, !.hash = "fail_phash"],
               [ImgClean EXCEPT !.ext = ext, !.bright = "fail"],
               [ImgClean EXCEPT !.ext = ext, !.bright = "zero"],
               [ImgClean EXCEPT !.ext = ext, !.exif = "ok", !.dt = "valid", !.gps = "valid"],
               [ImgClean EXCEPT !.ext = ext, !.exif = "ok", !.dt = "malformed"],
               [ImgClean EXCEPT !.ext = ext, !.exif = "raises"]}
         ELSE {}

VidInputs ==
    {VidClean}
    \cup IF profile = "record"
         THEN {[VidClean EXCEPT !.lib = FALSE],
               [VidClean EXCEPT !.on_path = FALSE],
               [VidClean EXCEPT !.probe = "raises"],
               [VidClean EXCEPT !.streams = <<>>],
               [VidClean EXCEPT !.streams[1].nb_frames = NULL]}
         ELSE {}

FrameInputs ==
    {FrameClean}
    \cup IF profile = "record"
         THEN {[FrameClean EXCEPT !.libs = FALSE],
               [FrameClean EXCEPT !.on_path = FALSE],
               [FrameClean EXCEPT !.run = "empty"],
               [FrameClean EXCEPT !.run = "raises"],
               [FrameClean EXCEPT !.hash = "fail"],
               [FrameClean EXCEPT !.bright = "fail"],
               [FrameClean EXCEPT !.bright = "zero"]}
         ELSE {}

\* the ascending sequence of the paths in S
RECURSIVE SeqOf(_)
SeqOf(S) ==
    IF S = {} THEN <<>>
    ELSE LET m == CHOOSE x \in S : \A y \in S : x <= y
         IN  <<m>> \o SeqOf(S \ {m})

\* What os.walk can find: any part of the tree (files come and go between
\* scans); the "record" profile scans one file, of any extension, and the
\* "fair" profile the whole tree or an empty one.
Walks ==
    IF profile = "record" THEN {<<p>> : p \in 1..3}
    ELSE IF profile = "fair" THEN {<<>>, SeqOf(Paths)}
    ELSE {SeqOf(S) : S \in SUBSET Paths}

ScanLimit == IF profile = "record" THEN 1 ELSE MaxScans

\* ------------------------------------------------------------------------
\* Initial state
\* ------------------------------------------------------------------------
NoEntry == [full_path |-> 0]
NoStat == [modified_date |-> NULL, fs_created_date |-> NULL,
           birth_date |-> NULL, inode |-> NULL]

InitProfile(p, at) ==
    /\ profile = p
    /\ pc = at
    /\ scans = 0
    /\ walk = <<>>
    /\ idx = 0
    /\ abort = FALSE
    /\ queue = <<>>
    /\ running = {}
    /\ fut = NoFutures
    /\ fs_meta = NoStat
    /\ sha256 = <<>>
    /\ mime = <<>>
    /\ img = ImgDefault
    /\ vid = VidDefault
    /\ vid_frame = FrameDefault
    /\ entry = NoEntry
    /\ results = <<>>
    /\ db = EmptyDb
    /\ disk = EmptyDb
    /\ outcome = "none"
    /\ handed = <<>>
    /\ late = 0
    /\ emitted = <<>>

\* One call of the function f on an input of S: qin holds the arguments
\* and qout, afterwards, what the call returns.
InitCall(f, S) ==
    /\ InitProfile("scan", f)
    /\ iin = ImgClean /\ iout = ImgDefault
    /\ qin \in S
    /\ qout = NULL

\* The application after start-up: no scan running, an empty index.
Init == InitProfile("scan", "idle") /\ iin = ImgClean /\ iout = ImgDefault /\ qin = NULL /\ qout = NULL

\* The same, every scan finding the whole tree or nothing.
InitFair == InitProfile("fair", "idle") /\ iin = ImgClean /\ iout = ImgDefault /\ qin = NULL /\ qout = NULL

\* The same, scanning a directory of one file under every decoder outcome.
InitRecord == InitProfile("record", "idle") /\ iin = ImgClean /\ iout = ImgDefault /\ qin = NULL /\ qout = NULL

\* ------------------------------------------------------------------------
\* MainWindow: starting and stopping a scan
\* ------------------------------------------------------------------------
scanVars == << walk, idx, fs_meta, sha256, mime, img, vid, vid_frame, entry, results >>
poolVars == << queue, running, fut >>
imageVars == << iin, iout >>
queryVars == << qin, qout >>

\* on_scan_clicked / _start_scan: a new worker (with _abort False) on a new
\* thread; the scan button is disabled until on_worker_finished
StartScan ==
    /\ pc = "idle"
    /\ scans < ScanLimit
    /\ \E w \in Walks : walk' = w
    /\ pc' = "start"
    /\ scans' = scans + 1
    /\ idx' = 0
    /\ abort' = FALSE
    /\ fut' = NoFutures
    /\ results' = <<>>
    /\ entry' = NoEntry
    /\ outcome' = "running"
    /\ handed' = <<>>
    /\ late' = 0
    /\ emitted' = <<>>
    /\ UNCHANGED << profile, queue, running, fs_meta, sha256, mime, img, vid,
                    vid_frame, db, disk, imageVars, queryVars >>

\* on_stop_clicked -> ScannerWorker.abort, on the GUI thread
Abort ==
    /\ pc \notin {"idle", "store", "image", "image_done"}
    /\ ~abort
    /\ abort' = TRUE
    /\ UNCHANGED << profile, emitted, pc, scans, scanVars, poolVars, db, disk, outcome,
                    handed, late, imageVars, queryVars >>

\* ------------------------------------------------------------------------
\* ScannerWorker.run and scan_directory, on the worker thread
\* ------------------------------------------------------------------------
\* run, lines 39-52
RunClear ==
    /\ pc = "start"
    /\ db' = clear_tables(db)
    /\ disk' = commit(db', disk)
    /\ pc' = "loop"
    /\ UNCHANGED << profile, emitted, scans, abort, scanVars, poolVars, outcome, handed,
                    late, imageVars, queryVars >>

\* scan_directory, lines 566-573: the next file, fut_sha and fut_mime
LoopNext ==
    /\ pc = "loop"
    /\ idx < Len(walk)
    /\ idx' = idx + 1
    /\ LET p == walk[idx + 1] IN
       queue' = queue \o << [scan |-> scans, path |-> p, kind |-> "sha"],
                            [scan |-> scans, path |-> p, kind |-> "mime"] >>
    /\ fut' = [NoFutures EXCEPT !["sha"] = "pending", !["mime"] = "pending"]
    /\ late' = late + (IF abort THEN 1 ELSE 0)
    /\ pc' = "stat"
    /\ UNCHANGED << profile, emitted, scans, walk, abort, running, fs_meta, sha256, mime,
                    img, vid, vid_frame, entry, results, db, disk, outcome,
                    handed, imageVars, queryVars >>

\* scan_directory, lines 685-688, and the return to run
LoopEnd ==
    /\ pc = "loop"
    /\ idx = Len(walk)
    /\ pc' = "finally"
    /\ outcome' = "ok"
    /\ UNCHANGED << profile, emitted, scans, abort, scanVars, poolVars, db, disk,
                    handed, late, imageVars, queryVars >>

\* line 575: get_fs_metadata; os.stat raises for a file that is gone
Stat ==
    /\ pc = "stat"
    /\ \E st \in StatInputs :
         IF st.ok
         THEN /\ fs_meta' = get_fs_metadata(st)
              /\ pc' = "join_mime"
              /\ outcome' = outcome
         ELSE /\ fs_meta' = fs_meta
              /\ pc' = "except"
              /\ outcome' = "stat"
    /\ UNCHANGED << profile, emitted, scans, walk, idx, abort, poolVars, sha256, mime,
                    img, vid, vid_frame, entry, results, db, disk, handed,
                    late, imageVars, queryVars >>

\* line 585
submits_image(ext, kind) == ext \in image_exts \/ kind.is_image

\* line 588
submits_video(ext, kind) == kind.is_video

\* lines 577-590: fut_mime.result(), then the kind-specific sub-tasks
Classify ==
    /\ pc = "join_mime"
    /\ fut["mime"] = "done"
    /\ LET p == walk[idx]
           kind == classify_mime(mime)
           si == submits_image(ExtOf(p), kind)
           sv == submits_video(ExtOf(p), kind)
           t(k) == [scan |-> scans, path |-> p, kind |-> k]
       IN  /\ queue' = queue \o (IF si THEN <<t("img")>> ELSE <<>>)
                             \o (IF sv THEN <<t("vid"), t("frame")>> ELSE <<>>)
           /\ fut' = [fut EXCEPT !["img"] = IF si THEN "pending" ELSE "none",
                                 !["vid"] = IF sv THEN "pending" ELSE "none",
                                 !["frame"] = IF sv THEN "pending" ELSE "none"]
    /\ img' = ImgDefault
    /\ vid' = VidDefault
    /\ vid_frame' = FrameDefault
    /\ pc' = "join"
    /\ UNCHANGED << profile, emitted, scans, walk, idx, abort, running, fs_meta, sha256,
                    mime, entry, results, db, disk, outcome, handed, late,
                    imageVars, queryVars >>

\* the record built without waiting for the futures
joined_unawaited(f) == TRUE

\* lines 592-595: every future that was submitted has its result
joined(f) == \A k \in Kinds : f[k] # "pending"

\* the list that leaves out the files whose bytes could not be read
append_readable_only(rs, e) ==
    IF e.sha256 = <<"ERROR">> THEN rs ELSE Append(rs, e)

\* line 677
append_result(rs, e) == Append(rs, e)

\* lines 592-677: the joins, the record (os.path.getsize raises for a file
\* that is gone) and results.append
Assemble ==
    /\ pc = "join"
    /\ joined(fut)
    /\ \E size_ok \in BOOLEAN :
         IF size_ok
         THEN /\ entry' = assemble(walk[idx], 1, fs_meta, mime,
                                   fut["img"] # "none", sha256, img, vid, vid_frame)
              /\ results' = append_result(results, entry')
              /\ pc' = "cb_check"
              /\ outcome' = outcome
         ELSE /\ entry' = entry
              /\ results' = results
              /\ pc' = "except"
              /\ outcome' = "size"
    /\ UNCHANGED << profile, emitted, scans, walk, idx, abort, poolVars, fs_meta, sha256,
                    mime, img, vid, vid_frame, db, disk, handed, late,
                    imageVars, queryVars >>

\* the worker that falls silent once it has emitted error
emit_unless_failed(signals, s) ==
    IF \E i \in 1..Len(signals) : signals[i] = "error" THEN signals
    ELSE Append(signals, s)

\* progress.emit, error.emit, finished.emit: the signals of the worker, in
\* the order emitted
emit(signals, s) == Append(signals, s)

\* the callback that never reads the flag
cb_aborts_never(flag) == FALSE

\* line 55: if self._abort
cb_aborts(flag) == flag

\* cb, lines 54-56: the callback is entered and reads _abort
CbCheck ==
    /\ pc = "cb_check"
    /\ handed' = Append(handed, entry.full_path)
    /\ IF cb_aborts(abort)
       THEN pc' = "except" /\ outcome' = "abort"
       ELSE pc' = "cb_insert" /\ outcome' = outcome
    /\ UNCHANGED << profile, emitted, scans, abort, scanVars, poolVars, db, disk, late,
                    imageVars, queryVars >>

\* cb, lines 58-62: insert_entry and progress.emit
CbInsert ==
    /\ pc = "cb_insert"
    /\ \/ /\ db' = insert_entry(db, entry)
          /\ emitted' = emit(emitted, "progress")
          /\ pc' = "loop"
          /\ outcome' = outcome
       \/ /\ \E stage \in {0, 1} : db' = insert_entry_failing(db, entry, stage)
          /\ emitted' = emitted
          /\ pc' = "except"
          /\ outcome' = "sink"
    /\ UNCHANGED << profile, scans, abort, scanVars, poolVars, disk, handed,
                    late, imageVars, queryVars >>

\* run, lines 66-69: error.emit
Except ==
    /\ pc = "except"
    /\ emitted' = emit(emitted, "error")
    /\ pc' = "finally"
    /\ UNCHANGED << profile, scans, abort, scanVars, poolVars, db, disk,
                    outcome, handed, late, imageVars, queryVars >>

\* run, lines 70-73: commit, close, finished
Finally ==
    /\ pc = "finally"
    /\ disk' = commit(db, disk)
    /\ db' = disk'
    /\ emitted' = emit(emitted, "finished")
    /\ pc' = "idle"
    /\ UNCHANGED << profile, scans, abort, scanVars, poolVars, outcome, handed,
                    late, imageVars, queryVars >>

\* ------------------------------------------------------------------------
\* The thread pool (executor, line 42)
\* ------------------------------------------------------------------------
\* a worker takes the oldest queued sub-task
TaskStart ==
    /\ queue # <<>>
    /\ Cardinality(running) < MAX_WORKERS
    /\ running' = running \cup {Head(queue)}
    /\ queue' = Tail(queue)
    /\ UNCHANGED << profile, emitted, pc, scans, abort, scanVars, fut, db, disk, outcome,
                    handed, late, imageVars, queryVars >>

\* the pool that hands no result back to the future
HeldNever(t) == FALSE

\* the future of t is still held by scan_directory
Held(t) ==
    /\ pc \in {"stat", "join_mime", "join"}
    /\ t.scan = scans
    /\ t.path = walk[idx]

TaskDone(t) ==
    /\ t \in running
    /\ running' = running \ {t}
    /\ fut' = IF Held(t) THEN [fut EXCEPT ![t.kind] = "done"] ELSE fut
    /\ UNCHANGED << profile, emitted, pc, scans, walk, idx, abort, queue, fs_meta, entry,
                    results, db, disk, outcome, handed, late, imageVars, queryVars >>

FinishSha ==
    \E t \in running :
      /\ t.kind = "sha"
      /\ TaskDone(t)
      /\ \E inp \in ShaInputs :
           sha256' = IF Held(t) THEN compute_sha256(inp) ELSE sha256
      /\ UNCHANGED << mime, img, vid, vid_frame >>

FinishMime ==
    \E t \in running :
      /\ t.kind = "mime"
      /\ TaskDone(t)
      /\ \E inp \in MimeInputs :
           mime' = IF Held(t) THEN detect_mime_type(inp, ExtOf(t.path)) ELSE mime
      /\ UNCHANGED << sha256, img, vid, vid_frame >>

FinishImg ==
    \E t \in running :
      /\ t.kind = "img"
      /\ TaskDone(t)
      /\ \E inp \in ImgInputs(ExtOf(t.path)) :
           img' = IF Held(t) THEN extract_image_metadata(inp) ELSE img
      /\ UNCHANGED << sha256, mime, vid, vid_frame >>

FinishVid ==
    \E t \in running :
      /\ t.kind = "vid"
      /\ TaskDone(t)
      /\ \E inp \in VidInputs :
           vid' = IF Held(t) THEN extract_video_metadata(inp) ELSE vid
      /\ UNCHANGED << sha256, mime, img, vid_frame >>

FinishFrame ==
    \E t \in running :
      /\ t.kind = "frame"
      /\ TaskDone(t)
      /\ \E inp \in FrameInputs :
           vid_frame' = IF Held(t) THEN extract_video_frame_hashes(inp) ELSE vid_frame
      /\ UNCHANGED << sha256, mime, img, vid >>

Next ==
    \/ StartScan \/ Abort
    \/ RunClear \/ LoopNext \/ LoopEnd \/ Stat \/ Classify \/ Assemble
    \/ CbCheck \/ CbInsert \/ Except \/ Finally
    \/ TaskStart \/ FinishSha \/ FinishMime \/ FinishImg \/ FinishVid \/ FinishFrame

Spec == Init /\ [][Next]_vars

\* The worker thread runs whenever it is not blocked in a .result(), an idle
\* pool worker takes the next queued sub-task, and every sub-task a worker
\* runs returns; the user (StartScan, Abort) is under no obligation.
RunStep ==
    \/ RunClear \/ LoopNext \/ LoopEnd \/ Stat \/ Classify \/ Assemble
    \/ CbCheck \/ CbInsert \/ Except \/ Finally

TaskReturns == FinishSha \/ FinishMime \/ FinishImg \/ FinishVid \/ FinishFrame

SpecFair ==
    /\ InitFair /\ [][Next]_vars
    /\ WF_vars(RunStep) /\ WF_vars(TaskStart) /\ WF_vars(TaskReturns)

SpecRecord == InitRecord /\ [][Next]_vars

\* ------------------------------------------------------------------------
\* SpecStore: insert_entry on its own
\* ------------------------------------------------------------------------
StatOk == [ok |-> TRUE, has_birthtime |-> TRUE]

\* A record as scan_directory assembles it, for a file of the given
\* content whose MIME type is m.
StoreEntry(path, size, m) ==
    assemble(path, size, get_fs_metadata(StatOk), m, m[1] = "image",
             compute_sha256([readable |-> TRUE, content |-> size]),
             IF m[1] = "image" THEN extract_image_metadata(ImgClean) ELSE ImgDefault,
             IF m[1] = "video" THEN extract_video_metadata(VidClean) ELSE VidDefault,
             IF m[1] = "video" THEN extract_video_frame_hashes(FrameClean)
             ELSE FrameDefault)

\* The records handed to insert_entry: one path as an image, a video or
\* another file, of two sizes, and a second path.
StoreEntries ==
    { StoreEntry(1, size, m) :
        size \in {1, 2},
        m \in {<<"image", "jpeg">>, <<"video", "mp4">>, <<"text", "plain">>} }
    \cup { StoreEntry(2, 1, <<"image", "jpeg">>) }

InitStore == InitProfile("scan", "store") /\ iin = ImgClean /\ iout = ImgDefault /\ qin = NULL /\ qout = NULL

StoreInsert ==
    /\ pc = "store"
    /\ \E e \in StoreEntries :
         /\ db' = insert_entry(db, e)
         /\ entry' = e
    /\ UNCHANGED << profile, emitted, pc, scans, walk, idx, abort, poolVars, fs_meta,
                    sha256, mime, img, vid, vid_frame, results, disk, outcome,
                    handed, late, imageVars, queryVars >>

NextStore == StoreInsert

SpecStore == InitStore /\ [][NextStore]_vars

\* ------------------------------------------------------------------------
\* SpecImage: extract_image_metadata on its own
\* ------------------------------------------------------------------------
ExifInputs ==
    {[exif |-> "none", dt |-> "absent", gps |-> "absent"],
     [exif |-> "raises", dt |-> "absent", gps |-> "absent"]}
    \cup {[exif |-> "ok", dt |-> d, gps |-> g] :
            d \in {"absent", "valid", "malformed"},
            g \in {"absent", "valid", "unconvertible", "badref"}}

ImageInputs ==
    {[ImgClean EXCEPT !.libs = FALSE]}
    \cup { [ libs |-> TRUE, ext |-> e, real_format |-> rf, verify |-> v,
             open2 |-> o, load |-> l, hash |-> h, bright |-> b,
             exif |-> x.exif, dt |-> x.dt, gps |-> x.gps ] :
           e \in {".jpg", ".heic"}, rf \in {NULL, "JPEG", "PNG"},
           v \in {NoError} \cup Messages, o \in {NoError, MsgIdentify},
           l \in {NoError} \cup Messages,
           h \in {"ok", "fail_phash", "fail_whash"},
           b \in {"zero", "pos", "fail"}, x \in ExifInputs }

InitImage ==
    /\ InitProfile("scan", "image")
    /\ iin \in ImageInputs
    /\ iout = ImgDefault
    /\ qin = NULL /\ qout = NULL

ExtractImage ==
    /\ pc = "image"
    /\ iout' = extract_image_metadata(iin)
    /\ pc' = "image_done"
    /\ UNCHANGED << profile, emitted, scans, abort, scanVars, poolVars, db, disk,
                    outcome, handed, late, iin, queryVars >>

NextImage == ExtractImage

SpecImage == InitImage /\ [][NextImage]_vars

\* ------------------------------------------------------------------------
\* SpecClassify: _classify_image_error_message on its own
\* ------------------------------------------------------------------------
\* The messages a decoder raises: up to MaxWords words.
ClassifyMessages ==
    LET Words == {"cannot", "identify", "image", "file", "truncated",
                  "Truncated", "decoder", "error", "stream"}
    IN  UNION {[1..n -> Words] : n \in 0..MaxWords}

ClassifyMessage ==
    /\ pc = "classify"
    /\ qout' = classify_image_error_message(qin)
    /\ pc' = "classify_done"
    /\ UNCHANGED << profile, emitted, scans, abort, scanVars, poolVars, db, disk,
                    outcome, handed, late, imageVars, qin >>

SpecClassify == InitCall("classify", ClassifyMessages) /\ [][ClassifyMessage]_vars

\* ------------------------------------------------------------------------
\* SpecVideo: extract_video_metadata on its own
\* ------------------------------------------------------------------------
\* Every state of the probing capability, and every report of up to
\* MaxStreams streams: video streams of two sizes, one without a frame
\* count, and an audio stream.
VideoInputs ==
    LET v1 == VidClean.streams[1]
        v2 == [v1 EXCEPT !.codec_name = "hevc", !.width = "vw2", !.height = "vh2",
                         !.r_frame_rate = "25/1", !.nb_frames = "60"]
        v0 == [v1 EXCEPT !.nb_frames = NULL]
        au == [v1 EXCEPT !.codec_type = "audio", !.codec_name = "aac",
                         !.width = NULL, !.height = NULL, !.r_frame_rate = NULL,
                         !.nb_frames = NULL]
        au2 == [au EXCEPT !.codec_name = "mp3"]
        Reports == UNION {[1..n -> {v1, v2, v0, au, au2}] : n \in 0..MaxStreams}
    IN  { [lib |-> l, on_path |-> p, in_bin |-> b, probe |-> r, streams |-> ss] :
            l \in BOOLEAN, p \in BOOLEAN, b \in BOOLEAN,
            r \in {"ok", "raises"}, ss \in Reports }

ExtractVideo ==
    /\ pc = "video"
    /\ qout' = extract_video_metadata(qin)
    /\ pc' = "video_done"
    /\ UNCHANGED << profile, emitted, scans, abort, scanVars, poolVars, db, disk,
                    outcome, handed, late, imageVars, qin >>

SpecVideo == InitCall("video", VideoInputs) /\ [][ExtractVideo]_vars

\* ------------------------------------------------------------------------
\* SpecFrame: the two video extractors of one video file and its record
\* ------------------------------------------------------------------------
FrameCallInputs ==
    { [ frame |-> [libs |-> l, on_path |-> p, in_bin |-> b, run |-> r,
                   hash |-> h, bright |-> g],
        vid |-> v ] :
      l \in BOOLEAN, p \in BOOLEAN, b \in BOOLEAN,
      r \in {"ok", "empty", "raises"}, h \in {"ok", "fail"},
      g \in {"zero", "pos", "fail"},
      v \in {VidClean, [VidClean EXCEPT !.lib = FALSE],
             [VidClean EXCEPT !.streams[1].nb_frames = NULL]} }

\* scan_directory, lines 592-675, for a .mp4 file detected as video/mp4:
\* fut_img is None, fut_vid and fut_vid_frame are joined
ExtractFrame ==
    /\ pc = "frame"
    /\ LET vi == extract_video_metadata(qin.vid)
           fr == extract_video_frame_hashes(qin.frame)
       IN  qout' = [ vid |-> vi, vid_frame |-> fr,
                     entry |-> assemble(2, 1, get_fs_metadata(StatOk),
                                        <<"video", "mp4">>, FALSE,
                                        compute_sha256([readable |-> TRUE, content |-> 1]),
                                        ImgDefault, vi, fr) ]
    /\ pc' = "frame_done"
    /\ UNCHANGED << profile, emitted, scans, abort, scanVars, poolVars, db, disk,
                    outcome, handed, late, imageVars, qin >>

SpecFrame == InitCall("frame", FrameCallInputs) /\ [][ExtractFrame]_vars

\* ------------------------------------------------------------------------
\* analytics_insights: duplicates and visual similarity
\* ------------------------------------------------------------------------
\* A text or a number read from a column is a sequence (a hash is the
\* sequence of its characters); NULL, Python's None, is the empty one.
NoValue == <<>>

\* the bits set in the first number alone
xor_bits_first(x, y) ==
    LET RECURSIVE ones(_)
        ones(n) == IF n = 0 THEN 0 ELSE (n % 2) + ones(n \div 2)
    IN  ones(x)

\* bin(x ^ y).count("1")
RECURSIVE xor_bits(_, _)
xor_bits(x, y) ==
    IF x = 0 /\ y = 0 THEN 0
    ELSE (((x % 2) + (y % 2)) % 2) + xor_bits(x \div 2, y \div 2)

\* _hamming; int16 is int(s, 16) for a string given as its characters, -1
\* standing for ValueError
hamming(a, b) ==
    LET val(c) ==
            CASE c = "0" -> 0 [] c = "1" -> 1 [] c = "2" -> 2 [] c = "3" -> 3
              [] c = "4" -> 4 [] c = "5" -> 5 [] c = "6" -> 6 [] c = "7" -> 7
              [] c = "8" -> 8 [] c = "9" -> 9 [] c = "a" -> 10 [] c = "b" -> 11
              [] c = "c" -> 12 [] c = "d" -> 13 [] c = "e" -> 14 [] c = "f" -> 15
              [] OTHER -> -1
        RECURSIVE num(_, _, _)
        num(s, i, acc) ==
            IF i > Len(s) THEN acc
            ELSE IF val(s[i]) < 0 THEN -1
            ELSE num(s, i + 1, 16 * acc + val(s[i]))
        int16(s) == IF s = <<>> THEN -1 ELSE num(s, 1, 0)
        x == int16(a)
        y == int16(b)
    IN  IF a = NoValue \/ b = NoValue THEN 9999
        ELSE IF x < 0 \/ y < 0 THEN 9999
        ELSE xor_bits(x, y)

\* dist < threshold
within_strict(dist, threshold) == dist < threshold

\* dist <= threshold (line 159)
within(dist, threshold) == dist <= threshold

\* find_phash_similar over hash_meta as the SELECT reads it: the rows with
\* a hash, and every pair i < j of them within the threshold, in loop order
find_phash_similar(table, threshold) ==
    LET rows == SelectSeq(table, LAMBDA r : r.phash # NoValue)
        n == Len(rows)
        RECURSIVE loop(_, _)
        loop(i, j) ==
            IF i > n THEN <<>>
            ELSE IF j > n THEN loop(i + 1, i + 2)
            ELSE LET dist == hamming(rows[i].phash, rows[j].phash)
                 IN  (IF within(dist, threshold)
                      THEN << <<rows[i].file_id, rows[j].file_id, dist>> >>
                      ELSE <<>>) \o loop(i, j + 1)
    IN  loop(1, 2)

\* parent[b] = a, whatever the roots are
link(parent, a, b) == [parent EXCEPT ![b] = a]

RECURSIVE find_root(_, _)
find_root(x, parent) == IF parent[x] # x THEN find_root(parent[x], parent) ELSE x

\* lines 180-183: the root of b is hung under the root of a
union(parent, a, b) ==
    LET ra == find_root(a, parent)
        rb == find_root(b, parent)
    IN  IF ra # rb THEN [parent EXCEPT ![rb] = ra] ELSE parent

\* find_visual_clusters: the clusters as a set of sets of file ids
find_visual_clusters(table, threshold) ==
    LET similar == find_phash_similar(table, threshold)
        keys == UNION {{similar[k][1], similar[k][2]} : k \in 1..Len(similar)}
        RECURSIVE unions(_, _)
        unions(parent, k) ==
            IF k > Len(similar) THEN parent
            ELSE unions(union(parent, similar[k][1], similar[k][2]), k + 1)
        parent == unions([x \in keys |-> x], 1)
        clusters == {{k \in keys : find_root(k, parent) = r} :
                       r \in {find_root(k, parent) : k \in keys}}
    IN  {v \in clusters : Cardinality(v) > 1}

\* HAVING COUNT(*) = 2
having_pairs_only(count) == count = 2

\* HAVING COUNT(*) > 2
having_above_two(count) == count > 2

\* HAVING COUNT(*) > 1
having(count) == count > 1

\* find_sha_duplicates: the rows (sha256, COUNT(*)) of hash_meta grouped by
\* sha256; the table is the set of its rows
find_sha_duplicates(table) ==
    LET held == {r.sha256 : r \in {x \in table : x.sha256 # NoValue}}
        count(h) == Cardinality({r \in table : r.sha256 = h})
    IN  {<<h, count(h)>> : h \in {x \in held : having(count(x))}}

\* get_duplicates_sha256: the same rows ORDER BY COUNT(*) DESC; every
\* sequence the ordering allows
get_duplicates_sha256(table) ==
    LET rows == find_sha_duplicates(table)
        n == Cardinality(rows)
    IN  { q \in [1..n -> rows] :
            /\ \A i, j \in 1..n : i < j => (q[i] # q[j] /\ q[i][2] >= q[j][2]) }

\* ------------------------------------------------------------------------
\* analytics_insights: temporal grouping, GPS clustering and live photos
\* ------------------------------------------------------------------------
\* datetime.isoformat(timespec="seconds") of the second n: a stored
\* timestamp is the ISO text of a second
isoformat(n) == <<"iso", n>>

\* datetime.fromisoformat(dt), as seconds
fromisoformat(dt) == dt[2]

\* SELECT ... FROM files WHERE created_date IS NOT NULL ORDER BY
\* created_date: every sequence of the dated rows the ordering allows
select_by_created_date(table) ==
    LET dated == {r \in table : r.created_date # NoValue}
        n == Cardinality(dated)
    IN  { q \in [1..n -> dated] :
            \A i, j \in 1..n :
                i < j => /\ q[i] # q[j]
                         /\ fromisoformat(q[i].created_date)
                               <= fromisoformat(q[j].created_date) }

\* (dtp - last_dt).total_seconds() < gap_seconds
within_gap_strict(dtp, last_dt, gap_seconds) == dtp - last_dt < gap_seconds

\* (dtp - last_dt).total_seconds() <= gap_seconds (line 223)
within_gap(dtp, last_dt, gap_seconds) == dtp - last_dt <= gap_seconds

\* group_by_time, lines 207-232, over the rows fetched
group_by_time(rows, gap_seconds) ==
    LET item(r) == [file_id |-> r.file_id, dtp |-> fromisoformat(r.created_date)]
        RECURSIVE loop(_, _, _)
        loop(i, groups, current) ==
            IF i > Len(rows)
            THEN IF current # <<>> THEN Append(groups, current) ELSE groups
            ELSE IF current = <<>>
            THEN loop(i + 1, groups, <<item(rows[i])>>)
            ELSE IF within_gap(item(rows[i]).dtp, current[Len(current)].dtp,
                               gap_seconds)
            THEN loop(i + 1, groups, Append(current, item(rows[i])))
            ELSE loop(i + 1, Append(groups, current), <<item(rows[i])>>)
    IN  loop(1, <<>>, <<>>)

\* _gps_distance_m. A stored coordinate is <<x>>. The points lie on one
\* meridian: a latitude is given in metres north of a reference point, so
\* that the great-circle distance of two points with the same longitude is
\* the difference of their latitudes.
gps_distance_m(lat1, lon1, lat2, lon2) ==
    IF NoValue \in {lat1, lon1, lat2, lon2} THEN 999999
    ELSE IF lat1[1] >= lat2[1] THEN lat1[1] - lat2[1] ELSE lat2[1] - lat1[1]

\* distance < distance_m
near_strict(d, distance_m) == d < distance_m

\* distance <= distance_m (line 279)
near(d, distance_m) == d <= distance_m

\* group_by_gps, lines 260-285, over the joined rows in the order read
group_by_gps(table, distance_m) ==
    LET rows == SelectSeq(table, LAMBDA r : r.gps_lat # NoValue /\ r.gps_lon # NoValue)
        n == Len(rows)
        RECURSIVE inner(_, _, _, _)
        \* the group and the used set after the loop over j
        inner(i, j, group, used) ==
            IF j > n THEN [group |-> group, used |-> used]
            ELSE IF rows[j].file_id \in used THEN inner(i, j + 1, group, used)
            ELSE IF near(gps_distance_m(rows[i].gps_lat, rows[i].gps_lon,
                                        rows[j].gps_lat, rows[j].gps_lon),
                         distance_m)
            THEN inner(i, j + 1, Append(group, rows[j]),
                       used \cup {rows[j].file_id})
            ELSE inner(i, j + 1, group, used)
        RECURSIVE outer(_, _, _)
        outer(i, clusters, used) ==
            IF i > n THEN clusters
            ELSE IF rows[i].file_id \in used THEN outer(i + 1, clusters, used)
            ELSE LET g == inner(i, i + 1, <<rows[i]>>, used \cup {rows[i].file_id})
                 IN  outer(i + 1, Append(clusters, g.group), g.used)
    IN  outer(1, <<>>, {})

\* detect_live_photo_pairs over files, table[i] being the row of file id i;
\* the pairs (image path, video path) as a set, a path given by its file id
detect_live_photo_pairs(table) ==
    LET ids == DOMAIN table
        images == {i \in ids : table[i].extension \in {".jpg", ".jpeg", ".png", ".heic"}}
        videos == {i \in ids : table[i].extension \in {".mov", ".mp4"}}
        \* parse: None (empty) when fromisoformat raises
        parse(dt) == IF dt = NoValue THEN <<>> ELSE <<fromisoformat(dt)>>
        abs(x) == IF x < 0 THEN -x ELSE x
    IN  { pr \in images \X videos :
            LET t1 == parse(table[pr[1]].created_date)
                t2 == parse(table[pr[2]].created_date)
            IN  /\ table[pr[1]].basename = table[pr[2]].basename
                /\ t1 # <<>> /\ t2 # <<>>
                /\ abs(t1[1] - t2[1]) < 3 }

\* The perceptual hashes the scanner stores: HashLen hexadecimal digits.
Hashes == [1..HashLen -> {"0", "3", "f"}]

\* ------------------------------------------------------------------------
\* SpecInsights: one call of an analytics function on a table
\* ------------------------------------------------------------------------
HammingInputs ==
    LET H == Hashes \cup {NoValue, <<"z", "z">>}
    IN  {[a |-> a, b |-> b] : a \in H, b \in H}

\* hash_meta in any order the SELECT may read it: one row per file, with a
\* hash of no bit, of ten bits or of every bit set, or with none; and the
\* caller's threshold (10 by default).
ClusterInputs ==
    LET zero == [i \in 1..HashLen |-> "0"]
        ones == [i \in 1..HashLen |-> "f"]
        ten == [i \in 1..HashLen |-> IF i = 1 THEN "3" ELSE "f"]
        Tables == { t \in UNION {[1..n -> [file_id : 1..MaxRows,
                                           phash : {zero, ten, ones, NoValue}]] :
                                   n \in 0..MaxRows} :
                      \A i, j \in 1..Len(t) : i # j => t[i].file_id # t[j].file_id }
    IN  {[table |-> t, threshold |-> th] : t \in Tables, th \in {2, 10}}

\* hash_meta: one row per file, holding a digest, the "ERROR" compute_sha256
\* returns for an unreadable file, or no value.
ShaTables ==
    LET Values == {compute_sha256(i) : i \in ShaInputs}
                  \cup {compute_sha256([readable |-> TRUE, content |-> 2]), NoValue}
    IN  UNION { {{[file_id |-> i, sha256 |-> f[i]] : i \in ids} : f \in [ids -> Values]} :
                ids \in SUBSET (1..MaxRows) }

\* files: one row per file, created at second 0, 10, 130 or 200 or holding
\* no created_date; and the caller's gap (120 by default).
TimeInputs ==
    LET Dates == {isoformat(n) : n \in {0, 10, 130, 200}} \cup {NoValue}
        Tables == UNION { {{[file_id |-> i, created_date |-> f[i]] : i \in ids} :
                             f \in [ids -> Dates]} : ids \in SUBSET (1..MaxRows) }
    IN  {[table |-> t, gap_seconds |-> g] : t \in Tables, g \in {10, 120}}

\* files joined with image_meta, in any order: one row per image, at 0, 50,
\* 51 or 100 m along the meridian or missing a coordinate; and the caller's
\* distance (50 m by default).
GpsInputs ==
    LET Places == {[gps_lat |-> <<x>>, gps_lon |-> <<0>>] : x \in {0, 50, 51, 100}}
                  \cup {[gps_lat |-> NoValue, gps_lon |-> <<0>>],
                        [gps_lat |-> <<0>>, gps_lon |-> NoValue]}
        Rows == {[file_id |-> i, gps_lat |-> p.gps_lat, gps_lon |-> p.gps_lon] :
                   i \in 1..MaxRows, p \in Places}
        Tables == { t \in UNION {[1..n -> Rows] : n \in 0..MaxRows} :
                      \A i, j \in 1..Len(t) : i # j => t[i].file_id # t[j].file_id }
    IN  {[table |-> t, distance_m |-> 50] : t \in Tables}

\* files, row i being file id i: an image or a video of the stem IMG_001 created
\* at second 0, 2, 5 or 6 or holding no created_date, a text file of that
\* stem, and an image and a video of another stem.
LiveTables ==
    LET Stem1 == {[basename |-> "IMG_001", extension |-> x, created_date |-> d] :
                    x \in {".jpg", ".mov"},
                    d \in {isoformat(n) : n \in {0, 2, 5, 6}} \cup {NoValue}}
        Others == {[basename |-> "IMG_001", extension |-> ".txt",
                    created_date |-> isoformat(0)],
                   [basename |-> "IMG_002", extension |-> ".heic",
                    created_date |-> isoformat(0)],
                   [basename |-> "IMG_002", extension |-> ".mp4",
                    created_date |-> isoformat(0)]}
    IN  UNION {[1..n -> Stem1 \cup Others] : n \in 0..MaxRows}

InitInsights ==
    \/ InitCall("hamming", HammingInputs)
    \/ InitCall("clusters", ClusterInputs)
    \/ InitCall("sha_duplicates", ShaTables)
    \/ InitCall("group_by_time", TimeInputs)
    \/ InitCall("group_by_gps", GpsInputs)
    \/ InitCall("live_photos", LiveTables)

Hamming ==
    /\ pc = "hamming"
    /\ qout' = hamming(qin.a, qin.b)
    /\ pc' = "hamming_done"
    /\ UNCHANGED << profile, emitted, scans, abort, scanVars, poolVars, db, disk,
                    outcome, handed, late, imageVars, qin >>

FindVisualClusters ==
    /\ pc = "clusters"
    /\ qout' = find_visual_clusters(qin.table, qin.threshold)
    /\ pc' = "clusters_done"
    /\ UNCHANGED << profile, emitted, scans, abort, scanVars, poolVars, db, disk,
                    outcome, handed, late, imageVars, qin >>

FindShaDuplicates ==
    /\ pc = "sha_duplicates"
    /\ \E q \in get_duplicates_sha256(qin) :
         qout' = [insights |-> find_sha_duplicates(qin), queries |-> q]
    /\ pc' = "sha_duplicates_done"
    /\ UNCHANGED << profile, emitted, scans, abort, scanVars, poolVars, db, disk,
                    outcome, handed, late, imageVars, qin >>

GroupByTime ==
    /\ pc = "group_by_time"
    /\ \E rows \in select_by_created_date(qin.table) :
         qout' = [rows |-> rows, groups |-> group_by_time(rows, qin.gap_seconds)]
    /\ pc' = "group_by_time_done"
    /\ UNCHANGED << profile, emitted, scans, abort, scanVars, poolVars, db, disk,
                    outcome, handed, late, imageVars, qin >>

GroupByGps ==
    /\ pc = "group_by_gps"
    /\ qout' = group_by_gps(qin.table, qin.distance_m)
    /\ pc' = "group_by_gps_done"
    /\ UNCHANGED << profile, emitted, scans, abort, scanVars, poolVars, db, disk,
                    outcome, handed, late, imageVars, qin >>

DetectLivePhotoPairs ==
    /\ pc = "live_photos"
    /\ qout' = detect_live_photo_pairs(qin)
    /\ pc' = "live_photos_done"
    /\ UNCHANGED << profile, emitted, scans, abort, scanVars, poolVars, db, disk,
                    outcome, handed, late, imageVars, qin >>

NextInsights ==
    \/ Hamming
    \/ FindVisualClusters
    \/ FindShaDuplicates
    \/ GroupByTime
    \/ GroupByGps
    \/ DetectLivePhotoPairs

SpecInsights == InitInsights /\ [][NextInsights]_vars

\* ------------------------------------------------------------------------
\* Properties
\* ------------------------------------------------------------------------
PoolTasks == running \cup {queue[i] : i \in 1..Len(queue)}

ScanEnded == pc = "idle" /\ scans > 0

\* the entry e is stored in d: its files row and its kind-specific rows
Stored(d, e) ==
    \E r \in d.files :
      /\ r.full_path = e.full_path
      /\ r.cols = FilesCols(e)
      /\ e.is_image => [file_id |-> r.id, cols |-> ImageCols(e)] \in d.image_meta
      /\ e.is_video => [file_id |-> r.id, cols |-> VideoCols(e)] \in d.video_meta
      /\ [file_id |-> r.id, cols |-> HashCols(e)] \in d.hash_meta

\* every row of d is a row of one of the entries rs
OnlyRowsOf(d, rs) ==
    LET E == {rs[i] : i \in 1..Len(rs)}
        from(r, e) == \E f \in d.files : f.id = r.file_id /\ f.full_path = e.full_path
    IN  /\ Cardinality(d.files) = Len(rs)
        /\ \A r \in d.files : \E e \in E : r.full_path = e.full_path /\ r.cols = FilesCols(e)
        /\ \A r \in d.image_meta :
             \E e \in E : e.is_image /\ from(r, e) /\ r.cols = ImageCols(e)
        /\ \A r \in d.video_meta :
             \E e \in E : e.is_video /\ from(r, e) /\ r.cols = VideoCols(e)
        /\ \A r \in d.hash_meta : \E e \in E : from(r, e) /\ r.cols = HashCols(e)
        /\ Cardinality(d.image_meta) = Cardinality({e \in E : e.is_image})
        /\ Cardinality(d.video_meta) = Cardinality({e \in E : e.is_video})
        /\ Cardinality(d.hash_meta) = Len(rs)

\* C1: a scan that was neither cancelled nor stopped by a sink write
\* failure has processed every file of the walk, whatever went wrong for
\* single files.
C1_PerFileFailuresNeverAbort ==
    (ScanEnded /\ outcome \notin {"abort", "sink"}) =>
        /\ Len(results) = Len(walk)
        /\ outcome = "ok"

\* C2 as stated: no file's sub-tasks are submitted once the abort flag is
\* set, unless the file's processing had started before.
C2_NoSubmitAfterAbort == late = 0

\* C2 as amended: after the abort flag is set, sub-tasks are submitted for
\* at most one file whose processing had not started yet.
C2_AtMostOneFileAfterAbort == late <= 1

C2_Witness == pc = "idle" /\ outcome = "abort" /\ late = 1 /\ Len(walk) = 2

\* C3: after a cancelled scan has returned, every record handed to the
\* sink before the callback saw the abort flag is committed, and the
\* record whose callback saw the flag is not stored.
C3_CancelKeepsStoredRecords ==
    (ScanEnded /\ outcome = "abort") =>
        LET n == Len(results) IN
        /\ n >= 1
        /\ \A i \in 1..(n - 1) : Stored(disk, results[i])
        /\ Cardinality(disk.files) = n - 1
        /\ ~HasPath(disk, results[n].full_path)

C3_Witness == ScanEnded /\ outcome = "abort" /\ Len(results) = 2

\* C4: while the callback holds a file's record none of that file's
\* sub-tasks is queued or running, and sub-tasks of this scan are in the
\* pool only for the current file, every earlier file's record having been
\* handed to the callback.
C4_JoinThenSinkThenNextFile ==
    /\ pc \in {"cb_check", "cb_insert"} =>
         \A t \in PoolTasks : ~(t.scan = scans /\ t.path = entry.full_path)
    /\ \A t \in PoolTasks :
         t.scan = scans =>
           /\ t.path = walk[idx]
           /\ \A j \in 1..(idx - 1) : \E h \in 1..Len(handed) : handed[h] = walk[j]

C4_Witness ==
    /\ pc = "cb_check" /\ idx = 2
    /\ fut["vid"] = "done" /\ fut["frame"] = "done"
    /\ handed = <<walk[1]>>

\* C5: a scan that was neither cancelled nor failed has called the
\* callback once for every file of the walk, with distinct paths, and
\* returns exactly those records.
C5_OneRecordPerFile ==
    (outcome = "ok") =>
        /\ handed = walk
        /\ Len(results) = Len(handed)
        /\ \A i \in 1..Len(results) : results[i].full_path = handed[i]
        /\ \A i, j \in 1..Len(handed) : i # j => handed[i] # handed[j]

C5_Witness == ScanEnded /\ outcome = "ok" /\ Len(walk) = 2

\* C6: once a scan has completed, the store holds the records of that
\* scan and nothing else, whatever the earlier scans stored.
C6_RescanReplaces ==
    (ScanEnded /\ outcome = "ok") =>
        /\ \A i \in 1..Len(results) : Stored(disk, results[i])
        /\ OnlyRowsOf(disk, results)

C6_Witness == ScanEnded /\ outcome = "ok" /\ scans = 2 /\ Len(results) = 1

\* what the store holds for a path
PathState(d, path) ==
    LET ids == {r.id : r \in {f \in d.files : f.full_path = path}} IN
    [ files |-> {r.cols : r \in {f \in d.files : f.full_path = path}},
      image_meta |-> {r.cols : r \in {m \in d.image_meta : m.file_id \in ids}},
      video_meta |-> {r.cols : r \in {m \in d.video_meta : m.file_id \in ids}},
      hash_meta |-> {r.cols : r \in {m \in d.hash_meta : m.file_id \in ids}} ]

\* C7: after insert_entry, the store holds for the entry's path what
\* inserting the entry into an empty store gives.
C7_UpsertReplaces ==
    (pc = "store" /\ entry.full_path # 0) =>
        PathState(db, entry.full_path)
            = PathState(insert_entry(EmptyDb, entry), entry.full_path)

\* C8: the record's corruption flag is set exactly when one of the
\* extractors that ran for the file reported a SOFT or HARD event.
C8_FlagCoversEveryExtractor ==
    (pc \in {"cb_check", "cb_insert"}) =>
        (entry.is_corrupted <=>
            (img.is_corrupted \/ vid.is_corrupted \/ vid_frame.is_corrupted))

\* C9: the image extractor and the video extractors are never both
\* submitted for one file.
C9_ImageOrVideoNeverBoth ==
    ~(fut["img"] # "none" /\ (fut["vid"] # "none" \/ fut["frame"] # "none"))

\* The events of one extraction, from what the decoders did: a phase
\* counts when the extractor got to it, an event is a failure that reaches
\* extract_image_metadata (a coordinate _convert_to_degrees cannot convert
\* raises nothing there).
ImgVerifyHard(inp) ==
    inp.verify # NoError /\ ~classify_image_error_message(inp.verify).is_usable
ImgLoadReached(inp) == inp.libs /\ ~ImgVerifyHard(inp) /\ inp.open2 = NoError
ImgLoadHard(inp) ==
    inp.load # NoError /\ ~classify_image_error_message(inp.load).is_usable
ImgPixels(inp) == ImgLoadReached(inp) /\ ~ImgLoadHard(inp)

ImgHardEvent(inp) ==
    /\ inp.libs
    /\ \/ ImgVerifyHard(inp)
       \/ ~ImgVerifyHard(inp) /\ inp.open2 # NoError
       \/ ImgLoadReached(inp) /\ ImgLoadHard(inp)
       \/ ImgPixels(inp) /\ inp.exif = "raises"
       \/ ImgPixels(inp) /\ inp.exif = "ok" /\ inp.gps = "badref"

ImgSoftEvent(inp) ==
    /\ inp.libs
    /\ \/ inp.verify # NoError /\ ~ImgVerifyHard(inp)
       \/ /\ ~ImgVerifyHard(inp)
          /\ expected_format(inp.ext) # NULL
          /\ inp.real_format # NULL
          /\ expected_format(inp.ext) # inp.real_format
       \/ ImgLoadReached(inp) /\ inp.load # NoError /\ ~ImgLoadHard(inp)
       \/ ImgPixels(inp) /\ inp.hash # "ok"
       \/ ImgPixels(inp) /\ inp.bright = "fail"
       \/ ImgPixels(inp) /\ inp.exif = "ok" /\ inp.dt = "malformed"

Mentions(m, w) == \E i \in 1..Len(m) : Lower(m[i]) = w

\* the message holds the phrase "cannot identify image file"
MentionsIdentify(m) ==
    \E i \in 1..Len(m) :
        /\ i + 3 <= Len(m)
        /\ <<m[i], m[i + 1], m[i + 2], m[i + 3]>> = MsgIdentify

MatchesSoft(m) == \E s \in soft_patterns : Contains(LowerMsg(m), s)
MatchesHard(m) == \E h \in hard_patterns : Contains(LowerMsg(m), h)

\* C11: a message containing "truncated" in any case is classified SOFT
\* (corrupted, usable) even when it also holds a HARD pattern; a message
\* containing "cannot identify image file" and no SOFT pattern is classified
\* HARD (unusable); a message matching no pattern is classified HARD.
C11_ClassificationOfMessages ==
    pc = "classify_done" =>
        /\ Mentions(qin, "truncated") => qout.is_corrupted /\ qout.is_usable
        /\ (MentionsIdentify(qin) /\ ~MatchesSoft(qin))
               => qout.is_corrupted /\ ~qout.is_usable
        /\ (~MatchesSoft(qin) /\ ~MatchesHard(qin))
               => qout.is_corrupted /\ ~qout.is_usable

\* "decoder error Truncated stream": SOFT although "decoder error" is HARD
C11_Witness ==
    /\ pc = "classify_done"
    /\ qin = MsgBoth
    /\ MatchesHard(qin)
    /\ qout.is_corrupted /\ qout.is_usable

\* ------------------------------------------------------------------------
\* C12
\* ------------------------------------------------------------------------
\* C12: whenever the probing capability is unavailable (the probing library
\* is missing, or ffprobe is neither on PATH nor in the bundled bin
\* directory), extract_video_metadata returns is_corrupted = true,
\* is_usable = false and a non-empty read_error.
C12_NoProbeIsHard ==
    (pc = "video_done" /\ (~qin.lib \/ (~qin.on_path /\ ~qin.in_bin))) =>
        /\ qout.is_corrupted
        /\ ~qout.is_usable
        /\ qout.read_error # NoError

\* ------------------------------------------------------------------------
\* C15
\* ------------------------------------------------------------------------
\* C15: for all pairs of hash values a and b, _hamming(a, b) = _hamming(b, a)
\* and _hamming(a, a) = 0.
C15_HammingSymmetricZeroOnSelf ==
    pc = "hamming_done" =>
        /\ qout = hamming(qin.b, qin.a)
        /\ (qin.a \in Hashes /\ qin.a = qin.b) => qout = 0

\* two different hashes, at a distance that is neither zero nor the sentinel
C15_Witness ==
    /\ pc = "hamming_done"
    /\ qin.a \in Hashes /\ qin.b \in Hashes
    /\ qin.a = <<"0", "0", "0">> /\ qin.b = <<"3", "f", "f">>
    /\ qout = 10

\* ------------------------------------------------------------------------
\* C13, C14
\* ------------------------------------------------------------------------
\* the rows of the table that hold a hash
Hashed(table) == {table[i] : i \in {k \in 1..Len(table) : table[k].phash # NoValue}}

\* two records whose hashes are at most the threshold apart
Similar(r1, r2, threshold) ==
    r1 # r2 /\ hamming(r1.phash, r2.phash) <= threshold

\* the file ids of the records reachable from r along similar pairs
RECURSIVE Component(_, _, _)
Component(S, N, threshold) ==
    LET S2 == S \cup {y \in N : \E z \in S : Similar(z, y, threshold)}
    IN  IF S2 = S THEN {r.file_id : r \in S} ELSE Component(S2, N, threshold)

\* C13: if A and B are within the threshold and B and C are too, then
\* find_visual_clusters puts A, B and C in one cluster, even when A and C
\* are further apart than the threshold.
C13_ClusteringIsTransitive ==
    pc = "clusters_done" =>
        \A a, b, c \in Hashed(qin.table) :
            (Similar(a, b, qin.threshold) /\ Similar(b, c, qin.threshold))
               => \E v \in qout : {a.file_id, b.file_id, c.file_id} \subseteq v

\* A and B ten bits apart, B and C two bits apart, A and C twelve bits
\* apart, threshold 10: one cluster of three
C13_Witness ==
    /\ pc = "clusters_done"
    /\ qin.threshold = 10
    /\ \E a, b, c \in Hashed(qin.table) :
          /\ Similar(a, b, 10) /\ Similar(b, c, 10)
          /\ a # c /\ ~Similar(a, c, 10)
          /\ \E v \in qout : v = {a.file_id, b.file_id, c.file_id}

\* C14: for every set of records with a hash and every order of the rows,
\* find_visual_clusters returns exactly the connected components of at
\* least two members of the graph of the similar pairs; the clusters are
\* pairwise disjoint and do not depend on the order of the rows.
C14_ClustersAreComponents ==
    pc = "clusters_done" =>
        LET N == Hashed(qin.table) IN
        /\ qout = {v \in {Component({r}, N, qin.threshold) : r \in N} :
                     Cardinality(v) >= 2}
        /\ \A v, w \in qout : v # w => v \cap w = {}

\* a cluster, a record with a hash that is not in it, rows out of id order
C14_Witness ==
    /\ pc = "clusters_done"
    /\ Len(qin.table) = MaxRows
    /\ Cardinality(qout) = 1
    /\ \E r \in Hashed(qin.table) : \A v \in qout : r.file_id \notin v
    /\ \E i \in 1..Len(qin.table) : qin.table[i].file_id < qin.table[1].file_id

\* ------------------------------------------------------------------------
\* C16, C17
\* ------------------------------------------------------------------------
\* the records of the table holding the hash h
Holders(table, h) == {r \in table : r.sha256 = h}

\* the hashes the records of the table hold
HeldHashes(table) == {r.sha256 : r \in table} \ {NoValue}

\* C16: exact-duplicate detection returns exactly one group per content
\* hash held by more than one record, of size the number of records holding
\* it (three records sharing a hash give one group of size 3); a hash held
\* by a single record yields no group.
C16_OneGroupPerSharedHash ==
    pc = "sha_duplicates_done" =>
        LET Shared == {h \in HeldHashes(qin) : Cardinality(Holders(qin, h)) > 1}
            Groups == {<<h, Cardinality(Holders(qin, h))>> : h \in Shared}
            q == qout.queries
        IN  /\ qout.insights = Groups
            /\ {q[i] : i \in 1..Len(q)} = Groups
            /\ Len(q) = Cardinality(Groups)
            /\ \A h \in HeldHashes(qin) :
                   Cardinality(Holders(qin, h)) = 1
                      => \A g \in qout.insights : g[1] # h

\* three records sharing one hash: a single group of size 3
C16_Witness ==
    /\ pc = "sha_duplicates_done"
    /\ \E h \in HeldHashes(qin) :
          /\ Cardinality(Holders(qin, h)) = 3
          /\ qout.insights = {<<h, 3>>}
          /\ qout.queries = << <<h, 3>> >>

\* C17 as stated: two records with identical content hash and no other
\* record sharing that hash never appear in the duplicate-group output of
\* find_sha_duplicates.
C17_PairNeverReported ==
    pc = "sha_duplicates_done" =>
        \A h \in HeldHashes(qin) :
            Cardinality(Holders(qin, h)) = 2
               => \A g \in qout.insights : g[1] # h

\* C17 amended: two records with identical content hash and no other record
\* sharing that hash appear in the output of find_sha_duplicates as one
\* group of size 2; a record whose hash no other record holds never appears.
C17_PairReportedAsGroupOfTwo ==
    pc = "sha_duplicates_done" =>
        \A h \in HeldHashes(qin) :
            /\ Cardinality(Holders(qin, h)) = 2
                  => {g \in qout.insights : g[1] = h} = {<<h, 2>>}
            /\ Cardinality(Holders(qin, h)) = 1
                  => {g \in qout.insights : g[1] = h} = {}

\* two records share a digest, a third holds another
C17_Witness ==
    /\ pc = "sha_duplicates_done"
    /\ Cardinality(qin) = 3
    /\ Cardinality(HeldHashes(qin)) = 2
    /\ \E h \in HeldHashes(qin) :
          /\ h[1] = "sha256"
          /\ Cardinality(Holders(qin, h)) = 2
          /\ qout.insights = {<<h, 2>>}

\* ------------------------------------------------------------------------
\* C18
\* ------------------------------------------------------------------------
\* the groups one after the other
RECURSIVE Flatten(_)
Flatten(groups) ==
    IF groups = <<>> THEN <<>> ELSE Head(groups) \o Flatten(Tail(groups))

\* the number of the group holding the k-th record of the flattened groups
RECURSIVE GroupOf(_, _)
GroupOf(groups, k) ==
    IF k <= Len(Head(groups)) THEN 1
    ELSE 1 + GroupOf(Tail(groups), k - Len(Head(groups)))

\* C18: group_by_time partitions the records that have a creation timestamp
\* into consecutive runs in ascending timestamp order: each such record is
\* in exactly one group, two records adjacent in that order are in the same
\* group exactly when the later timestamp minus the earlier is at most
\* gap_seconds, and records without a timestamp are in no group.
C18_GroupsAreRunsSplitAtGaps ==
    pc = "group_by_time_done" =>
        LET all == Flatten(qout.groups)
            n == Len(all)
            dated == {r \in qin.table : r.created_date # NoValue}
        IN  /\ \A g \in 1..Len(qout.groups) : qout.groups[g] # <<>>
            /\ n = Cardinality(dated)
            /\ {all[k].file_id : k \in 1..n} = {r.file_id : r \in dated}
            /\ \A k \in 1..n :
                   \E r \in dated :
                       /\ r.file_id = all[k].file_id
                       /\ r.created_date = isoformat(all[k].dtp)
            /\ \A k \in 1..(n - 1) :
                   /\ all[k].dtp <= all[k + 1].dtp
                   /\ (GroupOf(qout.groups, k) = GroupOf(qout.groups, k + 1))
                         <=> (all[k + 1].dtp - all[k].dtp <= qin.gap_seconds)

\* t, t + 10 s and t + 200 s with a gap of 120 s: {t, t + 10 s}, {t + 200 s}
C18_Witness ==
    /\ pc = "group_by_time_done"
    /\ qin.gap_seconds = 120
    /\ {r.created_date : r \in qin.table}
          = {isoformat(0), isoformat(10), isoformat(200)}
    /\ Len(qout.groups) = 2
    /\ Len(qout.groups[1]) = 2 /\ qout.groups[1][2].dtp = 10
    /\ Len(qout.groups[2]) = 1 /\ qout.groups[2][1].dtp = 200

\* ------------------------------------------------------------------------
\* C19
\* ------------------------------------------------------------------------
\* the file ids of a group
IdsOf(group) == {group[k].file_id : k \in 1..Len(group)}

\* the position of the record with this file id in the table
RowOf(table, id) == CHOOSE k \in 1..Len(table) : table[k].file_id = id

\* the metres between two rows that hold both coordinates
Metres(r1, r2) ==
    IF r1.gps_lat[1] >= r2.gps_lat[1] THEN r1.gps_lat[1] - r2.gps_lat[1]
    ELSE r2.gps_lat[1] - r1.gps_lat[1]

\* C19: group_by_gps puts every record with both coordinates in exactly one
\* cluster; a record is a member of the cluster seeded by an earlier record
\* exactly when it was unclustered when that seed was processed and its
\* distance to the seed is at most distance_m (50 m apart with threshold
\* 50 m: merged; 51 m apart: separate); records missing a coordinate are in
\* no cluster.
C19_SeedDistanceClusters ==
    pc = "group_by_gps_done" =>
        LET t == qin.table
            located == {t[k] : k \in {i \in 1..Len(t) :
                            t[i].gps_lat # NoValue /\ t[i].gps_lon # NoValue}}
            nc == Len(qout)
            earlier(c) == UNION {IdsOf(qout[d]) : d \in 1..(c - 1)}
        IN  /\ \A r \in located :
                   Cardinality({c \in 1..nc : r.file_id \in IdsOf(qout[c])}) = 1
            /\ \A c \in 1..nc :
                   /\ Cardinality(IdsOf(qout[c])) = Len(qout[c])
                   /\ \A k \in 1..Len(qout[c]) : qout[c][k] \in located
            /\ \A c \in 1..nc :
                   LET seed == qout[c][1] IN
                   \A r \in located :
                       RowOf(t, seed.file_id) < RowOf(t, r.file_id) =>
                           (r.file_id \in IdsOf(qout[c])
                              <=> /\ r.file_id \notin earlier(c)
                                  /\ Metres(seed, r) <= qin.distance_m)

\* a seed with a record 50 m away in its cluster and a record 51 m away in
\* a cluster of its own
C19_Witness ==
    /\ pc = "group_by_gps_done"
    /\ Len(qout) = 2
    /\ Len(qout[1]) = 2 /\ Len(qout[2]) = 1
    /\ Metres(qout[1][1], qout[1][2]) = 50
    /\ Metres(qout[1][1], qout[2][1]) = 51

\* ------------------------------------------------------------------------
\* C20
\* ------------------------------------------------------------------------
\* the seconds between two stored dates
SecondsApart(d1, d2) ==
    IF d1[2] >= d2[2] THEN d1[2] - d2[2] ELSE d2[2] - d1[2]

\* C20: detect_live_photo_pairs emits the pair (image, video) for every
\* image record (jpg/jpeg/png/heic) and video record (mov/mp4) that share
\* the filename stem and whose creation timestamps both parse and are
\* within 3 seconds of each other (exactly 3 s apart: paired; 4 s apart:
\* not paired), emits no other pair, and yields every qualifying
\* combination of a stem.
C20_PairsWithinThreeSeconds ==
    pc = "live_photos_done" =>
        qout = { pr \in (DOMAIN qin) \X (DOMAIN qin) :
                   LET i == qin[pr[1]]
                       v == qin[pr[2]]
                   IN  /\ i.extension \in {".jpg", ".jpeg", ".png", ".heic"}
                       /\ v.extension \in {".mov", ".mp4"}
                       /\ i.basename = v.basename
                       /\ i.created_date # NoValue
                       /\ v.created_date # NoValue
                       /\ SecondsApart(i.created_date, v.created_date) <= 3 }

\* ------------------------------------------------------------------------
\* C21
\* ------------------------------------------------------------------------
\* C21: the record's created_date is the EXIF capture timestamp when the
\* image extractor obtained one, otherwise the birth time when os.stat
\* exposes one, otherwise the created/changed time.
C21_CreatedDatePrecedence ==
    (pc \in {"cb_check", "cb_insert"}) =>
        entry.created_date =
            IF img.exif_datetime_original # NULL THEN img.exif_datetime_original
            ELSE IF fs_meta.birth_date = "btime" THEN "btime"
            ELSE "ctime"

\* a record dated by its EXIF block although the file has a birth time
C21_Witness ==
    /\ pc = "cb_insert"
    /\ img.exif_datetime_original = "exif_dt"
    /\ fs_meta.birth_date = "btime"
    /\ entry.created_date = "exif_dt"

\* ------------------------------------------------------------------------
\* C22
\* ------------------------------------------------------------------------
\* the EXIF data the decoders met is malformed: the block as a whole, the
\* capture timestamp, a GPS coordinate or a GPS reference
MalformedExif(inp) ==
    \/ inp.exif = "raises"
    \/ inp.exif = "ok" /\ inp.dt = "malformed"
    \/ inp.exif = "ok" /\ inp.gps \in {"unconvertible", "badref"}

\* C22: for an image whose pixels decode and whose EXIF data is malformed,
\* whichever field it is, extract_image_metadata returns is_corrupted true
\* and is_usable true.
C22_MalformedExifIsSoft ==
    (pc = "image_done" /\ ImgPixels(iin) /\ MalformedExif(iin)) =>
        (iout.is_corrupted /\ iout.is_usable)

\* ------------------------------------------------------------------------
\* C23
\* ------------------------------------------------------------------------
\* the streams of one type that ffprobe reported, in the order reported
StreamsOf(streams, type) == SelectSeq(streams, LAMBDA s : s.codec_type = type)

\* C23: when ffprobe reports several video streams, the result holds the
\* codec, width, height, frame rate, frame count and rotation of the first
\* of them; when it reports several audio streams, the codec of the first.
C23_FirstStreamReported ==
    (pc = "video_done" /\ qin.lib /\ find_ffprobe(qin) /\ qin.probe = "ok") =>
        LET vs == StreamsOf(qin.streams, "video")
            as == StreamsOf(qin.streams, "audio")
        IN  /\ Len(vs) > 1 =>
                  /\ qout.video_codec = vs[1].codec_name
                  /\ qout.width = vs[1].width
                  /\ qout.height = vs[1].height
                  /\ qout.fps = parse_rate(vs[1].r_frame_rate)
                  /\ qout.nb_frames = vs[1].nb_frames
                  /\ qout.rotation = vs[1].rotate
            /\ Len(as) > 1 => qout.audio_codec = as[1].codec_name

\* ------------------------------------------------------------------------
\* C24
\* ------------------------------------------------------------------------
\* C24: when the single-frame decode capability is absent (a library or
\* the ffmpeg executable is missing) or the decode gives no output,
\* extract_video_frame_hashes returns is_corrupted true and is_usable
\* false, and the record's stream-level video fields are those
\* extract_video_metadata returned.
C24_NoFrameIsHardAndLocal ==
    (/\ pc = "frame_done"
     /\ \/ ~qin.frame.libs
        \/ ~find_ffmpeg(qin.frame)
        \/ qin.frame.run = "empty") =>
        /\ qout.vid_frame.is_corrupted
        /\ ~qout.vid_frame.is_usable
        /\ \A f \in {"duration", "fps", "bitrate", "nb_frames", "rotation",
                      "video_codec", "audio_codec", "width", "height"} :
              qout.entry[f] = qout.vid[f]

\* ------------------------------------------------------------------------
\* C25
\* ------------------------------------------------------------------------
\* C25: whenever extract_image_metadata returns is_usable false, the
\* width, the height, the perceptual hashes, brightness_mean, hist_16bins
\* and every EXIF and GPS field of the result are null.
C25_HardLeavesNoPixelData ==
    (pc = "image_done" /\ ~iout.is_usable) =>
        \A f \in {"width", "height", "phash", "whash", "brightness_mean",
                  "hist_16bins", "exif_datetime_original",
                  "exif_camera_model", "gps_lat", "gps_lon"} :
            iout[f] = NULL

\* ------------------------------------------------------------------------
\* C26
\* ------------------------------------------------------------------------
\* C26: every record whose is_corrupted flag is true carries a read_error
\* message.
C26_CorruptedHasMessage ==
    (pc \in {"cb_check", "cb_insert"} /\ entry.is_corrupted) =>
        entry.read_error # NoError

\* ------------------------------------------------------------------------
\* C27
\* ------------------------------------------------------------------------
\* the file of the record could be read: its sha256 is a digest of its bytes
Readable(r) == r.sha256 # NoValue /\ r.sha256 # compute_sha256([readable |-> FALSE, content |-> 1])

\* C27: the records of one exact-duplicate group are records of files that
\* were read and whose bytes are the same; no group is made of files whose
\* content could not be read.
C27_GroupsShareContent ==
    pc = "sha_duplicates_done" =>
        \A g \in qout.insights \cup {qout.queries[i] : i \in 1..Len(qout.queries)} :
            \A r1, r2 \in Holders(qin, g[1]) :
                /\ Readable(r1) /\ Readable(r2)
                /\ r1.sha256[2] = r2.sha256[2]

\* ------------------------------------------------------------------------
\* C28
\* ------------------------------------------------------------------------
\* C28: for a file the image extractor processed, the record's
\* brightness_mean, hist_16bins, width, height and perceptual hashes are
\* the values extract_image_metadata returned.
C28_RecordKeepsImageValues ==
    (pc \in {"cb_check", "cb_insert"} /\ fut["img"] = "done") =>
        \A f \in {"brightness_mean", "hist_16bins", "width", "height",
                  "phash", "whash"} :
            entry[f] = img[f]

\* ------------------------------------------------------------------------
\* C29
\* ------------------------------------------------------------------------
\* how often the worker of this run emitted the signal
Emissions(sig) == Cardinality({i \in 1..Len(emitted) : emitted[i] = sig})

C30_ScanReturns ==
    /\ (pc # "idle") ~> (pc = "idle")
    /\ (pc \in {"join_mime", "join"}) ~> (pc \notin {"join_mime", "join"})
    /\ (queue # <<>>) ~> (queue = <<>>)

\* a second scan of two files that returned after waiting behind the
\* sub-tasks an aborted scan left in the pool
C30_Witness ==
    /\ ScanEnded /\ scans = 2 /\ outcome = "ok"
    /\ Len(results) = MaxFiles
    /\ \E t \in PoolTasks : t.scan = 1

====
